---- MODULE Spec2Model ----
(***************************************************************************)
(* A model of the MongoDB policy adapter of src/adapter.go: the rule codec *)
(* (savePolicyLine / loadPolicyLine), the selector built by                *)
(* RemoveFilteredPolicy, and the adapter's operations over a collection of *)
(* documents together with its filtered flag.                              *)
(*                                                                         *)
(* Strings that are only copied and compared are TLA+ strings.  A policy   *)
(* type is a sequence of one-character strings, because loadPolicyLine     *)
(* slices it (key[:1]).                                                    *)
(***************************************************************************)
EXTENDS Integers, Sequences, FiniteSets, Bags, TLC

VARIABLES filtered, store, op, ret, out, saved

vars == <<filtered, store, op, ret, out, saved>>

(***************************************************************************)
(* Bounds and constants                                                    *)
(***************************************************************************)

\* CasbinRule has the fields V0 .. V5.
NumFields == 6

\* Longest rule handed to the codec in SpecCodec and longest fieldValues in
\* SpecSelector.
MaxTupleLen == 6

\* RemoveFilteredPolicy is tried with fieldIndex in -MaxIndex .. MaxIndex.
MaxIndex == 7

\* The adapter specification (Spec): AddPolicy is called while the
\* collection holds fewer documents than this, and a model passed to
\* SavePolicy holds at most this many rules.
MaxStore == 2

\* The field values the codec and the selector builder are tried on.
Values == {"", "a", "b"}

\* A BSON value that is not a string (an int32, say): cur.Decode cannot put
\* it into a string field of CasbinRule.
NonStr == "<int32>"

\* Policy types: "p", "g", "p2", and the empty string.
TP == <<"p">>
TG == <<"g">>
TP2 == <<"p", "2">>
TEmpty == <<>>

PTypes == {TP, TG, TP2, TEmpty}

RECURSIVE SeqsUpTo(_, _)
\* All sequences over S of length 0 .. n.
SeqsUpTo(S, n) ==
  IF n = 0 THEN {<<>>}
  ELSE LET shorter == SeqsUpTo(S, n - 1)
       IN  shorter \cup {Append(s, x) : s \in {t \in shorter : Len(t) = n - 1}, x \in S}

(***************************************************************************)
(* The rule codec                                                          *)
(***************************************************************************)

\* CasbinRule{} : the zero value of the struct.
CasbinRule(ptype, v0, v1, v2, v3, v4, v5) ==
  [PType |-> ptype, V0 |-> v0, V1 |-> v1, V2 |-> v2, V3 |-> v3, V4 |-> v4, V5 |-> v5]

\* Field i (0 .. 5) of a CasbinRule.
FieldOf(line, i) ==
  CASE i = 0 -> line.V0
    [] i = 1 -> line.V1
    [] i = 2 -> line.V2
    [] i = 3 -> line.V3
    [] i = 4 -> line.V4
    [] i = 5 -> line.V5

\* savePolicyLine with the length tests off by one (len(rule) > i + 1).
savePolicyLineShort(ptype, rule) ==
  CasbinRule(ptype,
             IF Len(rule) > 1 THEN rule[1] ELSE "",
             IF Len(rule) > 2 THEN rule[2] ELSE "",
             IF Len(rule) > 3 THEN rule[3] ELSE "",
             IF Len(rule) > 4 THEN rule[4] ELSE "",
             IF Len(rule) > 5 THEN rule[5] ELSE "",
             IF Len(rule) > 6 THEN rule[6] ELSE "")

\* savePolicyLine with the second assignment missing (V1 is never set).
savePolicyLineSkipV1(ptype, rule) ==
  CasbinRule(ptype,
             IF Len(rule) > 0 THEN rule[1] ELSE "",
             "",
             IF Len(rule) > 2 THEN rule[3] ELSE "",
             IF Len(rule) > 3 THEN rule[4] ELSE "",
             IF Len(rule) > 4 THEN rule[5] ELSE "",
             IF Len(rule) > 5 THEN rule[6] ELSE "")

\* savePolicyLine(ptype, rule): rule[i] goes to Vi for i < len(rule), i < 6.
savePolicyLine(ptype, rule) ==
  CasbinRule(ptype,
             IF Len(rule) > 0 THEN rule[1] ELSE "",
             IF Len(rule) > 1 THEN rule[2] ELSE "",
             IF Len(rule) > 2 THEN rule[3] ELSE "",
             IF Len(rule) > 3 THEN rule[4] ELSE "",
             IF Len(rule) > 4 THEN rule[5] ELSE "",
             IF Len(rule) > 5 THEN rule[6] ELSE "")

\* The tokens of a line, skipping empty fields instead of stopping at one.
TokensSkipping(line) ==
  SelectSeq(<<line.V0, line.V1, line.V2, line.V3, line.V4, line.V5>>,
            LAMBDA x : x # "")

\* The tokens of a line: V0, V1, ... up to the first empty field (goto LineEnd).
Tokens(line) ==
  IF line.V0 = "" THEN <<>> ELSE
  IF line.V1 = "" THEN <<line.V0>> ELSE
  IF line.V2 = "" THEN <<line.V0, line.V1>> ELSE
  IF line.V3 = "" THEN <<line.V0, line.V1, line.V2>> ELSE
  IF line.V4 = "" THEN <<line.V0, line.V1, line.V2, line.V3>> ELSE
  IF line.V5 = "" THEN <<line.V0, line.V1, line.V2, line.V3, line.V4>> ELSE
  <<line.V0, line.V1, line.V2, line.V3, line.V4, line.V5>>

\* A policy model: a function from <<sec, key>> to the rules of
\* model[sec][key].Policy.  A pair outside the domain is a missing section or
\* a missing key: model[sec][key] is then a nil *Assertion.
HasKey(model, sec, key) == <<sec, key>> \in DOMAIN model

\* loadPolicyLine(line, model): key[:1] panics on an empty type, and the
\* append dereferences model[sec][key], which panics when the key is missing.
loadPolicyLine(line, model) ==
  LET key == line.PType
  IN  IF Len(key) < 1 THEN [panic |-> TRUE, model |-> model]
      ELSE LET sec == key[1]
           IN  IF ~HasKey(model, sec, key) THEN [panic |-> TRUE, model |-> model]
               ELSE [panic |-> FALSE,
                     model |-> [model EXCEPT ![<<sec, key>>] = Append(@, Tokens(line))]]

(***************************************************************************)
(* Documents, selectors and the collection                                 *)
(***************************************************************************)

\* The document the driver writes for a CasbinRule: the struct has no bson
\* tags, so every field is written under its lower-cased name, empty or not.
Marshal(line) ==
  [ptype |-> line.PType, v0 |-> line.V0, v1 |-> line.V1, v2 |-> line.V2,
   v3 |-> line.V3, v4 |-> line.V4, v5 |-> line.V5]

\* cur.Decode(&line) fails on a document with a non-string value in a field.
Decodable(doc) ==
  \A k \in {"v0", "v1", "v2", "v3", "v4", "v5"} : doc[k] # NonStr

\* cur.Decode(&line) on a document it accepts.
Unmarshal(doc) ==
  CasbinRule(doc.ptype, doc.v0, doc.v1, doc.v2, doc.v3, doc.v4, doc.v5)

\* A selector is a function from field names to required values; a document
\* matches when it has each of these values.
Matches(doc, selector) == \A k \in DOMAIN selector : doc[k] = selector[k]

\* The selector without any constraint: bson.D{}.
NoConstraint == [k \in {} |-> ""]

\* The key RemoveFilteredPolicy uses for field i.
FieldName(i) ==
  CASE i = 0 -> "v0"
    [] i = 1 -> "v1"
    [] i = 2 -> "v2"
    [] i = 3 -> "v3"
    [] i = 4 -> "v4"
    [] i = 5 -> "v5"

\* The window test with its upper end off by one (i <= fieldIndex + len).
InWindowWide(i, fieldIndex, fieldValues) ==
  fieldIndex <= i /\ i <= fieldIndex + Len(fieldValues)

\* fieldIndex <= i && i < fieldIndex+len(fieldValues)
InWindow(i, fieldIndex, fieldValues) ==
  fieldIndex <= i /\ i < fieldIndex + Len(fieldValues)

\* fieldValues[j] of the Go code (0-based) is out of range.
OutOfRange(fieldValues, j) == j < 0 \/ j >= Len(fieldValues)

\* The constraint RemoveFilteredPolicy adds for field i: none outside the
\* window, none for an empty value.
Clause(i, fieldIndex, fieldValues) ==
  IF InWindow(i, fieldIndex, fieldValues)
     /\ ~OutOfRange(fieldValues, i - fieldIndex)
     /\ fieldValues[i - fieldIndex + 1] # ""
  THEN FieldName(i) :> fieldValues[i - fieldIndex + 1]
  ELSE NoConstraint

\* The selector of RemoveFilteredPolicy; panic when an index expression
\* fieldValues[i-fieldIndex] that the code evaluates is out of range.
Selector(ptype, fieldIndex, fieldValues) ==
  [panic |-> \E i \in 0 .. NumFields - 1 :
               /\ InWindow(i, fieldIndex, fieldValues)
               /\ OutOfRange(fieldValues, i - fieldIndex),
   selector |-> ("ptype" :> ptype)
                @@ Clause(0, fieldIndex, fieldValues)
                @@ Clause(1, fieldIndex, fieldValues)
                @@ Clause(2, fieldIndex, fieldValues)
                @@ Clause(3, fieldIndex, fieldValues)
                @@ Clause(4, fieldIndex, fieldValues)
                @@ Clause(5, fieldIndex, fieldValues)]

\* The collection is a bag of documents (two documents with the same fields
\* differ only in their _id, which the adapter never reads).
NoDocs == [d \in {} |-> 1]

Count(bag, d) == IF d \in DOMAIN bag THEN bag[d] ELSE 0

Size(bag) == BagCardinality(bag)

\* The bag of the elements of a sequence.
RECURSIVE BagOfSeq(_)
BagOfSeq(s) ==
  IF s = <<>> THEN NoDocs ELSE BagOfSeq(Tail(s)) (+) SetToBag({Head(s)})

\* The documents of the collection a selector matches.
Find(bag, selector) ==
  LET hit == {d \in DOMAIN bag : Matches(d, selector)}
  IN  [d \in hit |-> bag[d]]

\* The orders in which a cursor can deliver the documents of a bag.
RECURSIVE Deliveries(_)
Deliveries(bag) ==
  IF DOMAIN bag = {} THEN {<<>>}
  ELSE UNION {{<<d>> \o s : s \in Deliveries(bag (-) SetToBag({d}))} : d \in DOMAIN bag}

\* collection.InsertOne
InsertOne(bag, doc) == bag (+) SetToBag({doc})

\* collection.DeleteMany
DeleteMany(bag, selector) ==
  LET keep == {d \in DOMAIN bag : ~Matches(d, selector)}
  IN  [d \in keep |-> bag[d]]

\* collection.DeleteOne removing every matching document.
DeleteOneAll(bag, selector) == {DeleteMany(bag, selector)}

\* collection.DeleteOne: the collections it can leave.
DeleteOne(bag, selector) ==
  LET hit == {d \in DOMAIN bag : Matches(d, selector)}
  IN  IF hit = {} THEN {bag} ELSE {bag (-) SetToBag({d}) : d \in hit}

(***************************************************************************)
(* The adapter                                                             *)
(*                                                                         *)
(* filtered and store are the adapter's flag and its collection.  op, ret  *)
(* and out describe the call in progress: its name and arguments, what it  *)
(* returned, and its model argument as the call left it.  A call runs as   *)
(* one step; Return hands control back to the caller, who may then call    *)
(* again.  saved remembers the model of the last successful SavePolicy for *)
(* as long as the collection has not been written since.                   *)
(***************************************************************************)

\* The policy models handed to the adapter hold the keys ("p", "p") and
\* ("g", "g"): the sections and types of a model with one policy definition
\* and one role definition.
ModelKeys == {<<"p", TP>>, <<"g", TG>>}

\* A model whose rule lists are empty (model.ClearPolicy()).
FreshModel == [k \in ModelKeys |-> <<>>]

\* The number of rules of a model under the given keys.
RECURSIVE RuleCount(_, _)
RuleCount(model, keys) ==
  IF keys = {} THEN 0
  ELSE LET k == CHOOSE x \in keys : TRUE
       IN  Len(model[k]) + RuleCount(model, keys \ {k})

\* The rules passed to AddPolicy, RemovePolicy and, inside a model, to
\* SavePolicy.
MainRules == {<<>>, <<"a">>, <<"a", "">>, <<"a", "b">>}

\* The models passed to SavePolicy.
SaveModels ==
  {m \in [ModelKeys -> SeqsUpTo(MainRules, MaxStore)] :
     RuleCount(m, ModelKeys) <= MaxStore}

\* The models passed to LoadPolicy and LoadFilteredPolicy: a cleared one and
\* one that already holds a rule.
LoadModels == {FreshModel, [FreshModel EXCEPT ![<<"p", TP>>] = << <<"b">> >>]}

\* The filters passed to LoadFilteredPolicy: nil, an empty selector
\* (bson.M{}), and the selector of the README.
NilFilter == [nil |-> TRUE, selector |-> NoConstraint]
EmptyFilter == [nil |-> FALSE, selector |-> NoConstraint]
AliceFilter == [nil |-> FALSE, selector |-> "v0" :> "a"]

Filters == {NilFilter, EmptyFilter, AliceFilter}

\* What the collection may hold when the adapter is constructed: nothing, a
\* document with a non-string field, a rule of a type the models do not
\* define, a rule without a type.
BadDoc ==
  [ptype |-> TP, v0 |-> "a", v1 |-> NonStr, v2 |-> "", v3 |-> "", v4 |-> "", v5 |-> ""]
P2Doc == Marshal(savePolicyLine(TP2, <<"a">>))
NoTypeDoc == Marshal(savePolicyLine(TEmpty, <<"a">>))

InitStores == {NoDocs, SetToBag({BadDoc}), SetToBag({P2Doc}), SetToBag({NoTypeDoc})}

\* No model saved since the collection was last written.
NoSaved == [valid |-> FALSE, model |-> FreshModel]

\* No call in progress.
NoCall == [name |-> "idle"]

\* The caller may call: no call is in progress, and neither log.Fatal nor a
\* panic has ended the process.
Idle == op = NoCall

\* NewAdapter / NewAdapterFromClient (filtered: false, then the options, of
\* which Filtered(true) sets the flag) and NewFilteredAdapter (filtered = true).
Init ==
  /\ filtered \in BOOLEAN
  /\ store \in InitStores
  /\ op = NoCall
  /\ ret = "nil"
  /\ out = FreshModel
  /\ saved = NoSaved

\* The call has returned to its caller.  A call that ended the process
\* (log.Fatal) or panicked does not return.
Return ==
  /\ op # NoCall
  /\ ret \notin {"fatal", "panic"}
  /\ op' = NoCall
  /\ ret' = "nil"
  /\ out' = FreshModel
  /\ UNCHANGED <<filtered, store, saved>>

\* The flag after a load, were it cleared by every empty filter.
FilteredAfterEmpty(filter) == filter.selector # NoConstraint

\* LoadFilteredPolicy: filter == nil clears the flag, anything else sets it.
FilteredAfter(filter) == ~filter.nil

\* The selector handed to Find: bson.D{} when the filter is nil.
FindSelector(filter) == IF filter.nil THEN NoConstraint ELSE filter.selector

\* The loop of LoadFilteredPolicy over the documents the cursor delivers: a
\* document cur.Decode rejects is skipped, the others go to loadPolicyLine.
RECURSIVE LoadLines(_, _)
LoadLines(docs, model) ==
  IF docs = <<>> THEN [panic |-> FALSE, model |-> model]
  ELSE IF ~Decodable(Head(docs)) THEN LoadLines(Tail(docs), model)
  ELSE LET r == loadPolicyLine(Unmarshal(Head(docs)), model)
       IN  IF r.panic THEN r ELSE LoadLines(Tail(docs), r.model)

\* LoadFilteredPolicy(model, filter), called under the name `name`.
\* fault: what the transport does ("find": Find returns an error; "iter":
\* cur.Next fails after the cursor has delivered `delivered`); closeErr:
\* whether cur.Close returns an error.
Load(name, model, filter) ==
  /\ Idle
  /\ filtered' = FilteredAfter(filter)
  /\ UNCHANGED <<store, saved>>
  /\ \/ /\ op' = [name |-> name, model |-> model, filter |-> filter,
                  fault |-> "find", delivered |-> <<>>]
        /\ ret' = "fatal"
        /\ out' = model
     \/ \E order \in Deliveries(Find(store, FindSelector(filter))) :
        \E fault \in {"none", "iter"} :
        \E cut \in (IF fault = "iter" THEN 0 .. Len(order) ELSE {Len(order)}) :
        \E closeErr \in BOOLEAN :
          LET delivered == SubSeq(order, 1, cut)
              r == LoadLines(delivered, model)
          IN  /\ op' = [name |-> name, model |-> model, filter |-> filter,
                        fault |-> fault, delivered |-> delivered]
              /\ ret' = IF r.panic THEN "panic" ELSE IF closeErr THEN "err" ELSE "nil"
              /\ out' = r.model

LoadFilteredPolicy(model, filter) == Load("LoadFilteredPolicy", model, filter)

\* LoadPolicy(model) is LoadFilteredPolicy(model, nil).
LoadPolicy(model) == Load("LoadPolicy", model, NilFilter)

\* IsFiltered returns the flag.
IsFiltered ==
  /\ Idle
  /\ op' = [name |-> "IsFiltered"]
  /\ ret' = IF filtered THEN "true" ELSE "false"
  /\ out' = FreshModel
  /\ UNCHANGED <<filtered, store, saved>>

\* The documents of the rules of one type, in order.
RECURSIVE LinesOf(_, _)
LinesOf(ptype, rules) ==
  IF rules = <<>> THEN <<>>
  ELSE <<Marshal(savePolicyLine(ptype, Head(rules)))>> \o LinesOf(ptype, Tail(rules))

\* The lines of SavePolicy without the loop over model["g"].
SaveLinesOnlyP(model) == LinesOf(TP, model[<<"p", TP>>])

\* The lines SavePolicy builds: the rules of model["p"], then those of
\* model["g"].
SaveLines(model) == LinesOf(TP, model[<<"p", TP>>]) \o LinesOf(TG, model[<<"g", TG>>])

\* The guard of SavePolicy, left out.
SaveRefusedNever(flag) == FALSE

\* SavePolicy refuses a filtered policy.
SaveRefused(flag) == flag

\* SavePolicy(model).  Drop may return an error, with the collection dropped
\* or not; InsertMany returns an error for an empty list of lines, and may
\* fail after inserting only the first k lines.
SavePolicy(model) ==
  /\ Idle
  /\ op' = [name |-> "SavePolicy", model |-> model]
  /\ out' = model
  /\ UNCHANGED filtered
  /\ IF SaveRefused(filtered)
     THEN /\ ret' = "errFiltered"
          /\ UNCHANGED <<store, saved>>
     ELSE LET lines == SaveLines(model)
          IN  \/ /\ ret' = "err"
                 /\ store' \in {store, NoDocs}
                 /\ saved' = NoSaved
              \/ /\ lines = <<>>
                 /\ ret' = "err"
                 /\ store' = NoDocs
                 /\ saved' = NoSaved
              \/ /\ lines # <<>>
                 /\ \E k \in 0 .. Len(lines) - 1 :
                      store' = BagOfSeq(SubSeq(lines, 1, k))
                 /\ ret' = "err"
                 /\ saved' = NoSaved
              \/ /\ lines # <<>>
                 /\ store' = BagOfSeq(lines)
                 /\ ret' = "nil"
                 /\ saved' = [valid |-> TRUE, model |-> model]

\* AddPolicy(sec, ptype, rule): sec is not used.
AddPolicy(ptype, rule) ==
  /\ Idle
  /\ Size(store) < MaxStore
  /\ op' = [name |-> "AddPolicy", ptype |-> ptype, rule |-> rule]
  /\ out' = FreshModel
  /\ UNCHANGED filtered
  /\ saved' = NoSaved
  /\ \/ /\ ret' = "err"
        /\ UNCHANGED store
     \/ /\ ret' = "nil"
        /\ store' = InsertOne(store, Marshal(savePolicyLine(ptype, rule)))

\* RemovePolicy(sec, ptype, rule): sec is not used.  The encoded line is the
\* selector of DeleteOne.
RemovePolicy(ptype, rule) ==
  /\ Idle
  /\ op' = [name |-> "RemovePolicy", ptype |-> ptype, rule |-> rule]
  /\ out' = FreshModel
  /\ UNCHANGED filtered
  /\ saved' = NoSaved
  /\ \/ /\ ret' = "err"
        /\ UNCHANGED store
     \/ /\ ret' = "nil"
        /\ store' \in DeleteOne(store, Marshal(savePolicyLine(ptype, rule)))

\* RemoveFilteredPolicy(sec, ptype, fieldIndex, fieldValues...): sec is not
\* used.
RemoveFilteredPolicy(ptype, fieldIndex, fieldValues) ==
  LET s == Selector(ptype, fieldIndex, fieldValues)
  IN  /\ Idle
      /\ op' = [name |-> "RemoveFilteredPolicy", ptype |-> ptype,
                fieldIndex |-> fieldIndex, fieldValues |-> fieldValues,
                panic |-> s.panic, selector |-> s.selector]
      /\ out' = FreshModel
      /\ UNCHANGED filtered
      /\ saved' = NoSaved
      /\ IF s.panic
         THEN /\ ret' = "panic"
              /\ UNCHANGED store
         ELSE \/ /\ ret' = "err"
                 /\ UNCHANGED store
              \/ /\ ret' = "nil"
                 /\ store' = DeleteMany(store, s.selector)

\* The field values RemoveFilteredPolicy is called with in Spec.
MainFieldValues == {<<>>, <<"a">>, <<"", "b">>}

Next ==
  \/ \E m \in LoadModels : LoadPolicy(m)
  \/ \E m \in LoadModels, f \in Filters : LoadFilteredPolicy(m, f)
  \/ IsFiltered
  \/ \E m \in SaveModels : SavePolicy(m)
  \/ \E t \in {TP, TG}, r \in MainRules : AddPolicy(t, r)
  \/ \E t \in {TP, TG}, r \in MainRules : RemovePolicy(t, r)
  \/ \E t \in {TP, TG}, i \in -1 .. 1, fv \in MainFieldValues :
       RemoveFilteredPolicy(t, i, fv)
  \/ Return

Spec == Init /\ [][Next]_vars

(***************************************************************************)
(* The codec on its own: a rule is encoded and the line decoded into a     *)
(* model, or a line as it may lie in the collection is decoded.            *)
(***************************************************************************)

\* The models lines are decoded into: the usual one, and one that also
\* defines the type "p2" and already holds rules.
CodecModels ==
  {FreshModel,
   [k \in ModelKeys \cup {<<"p", TP2>>} |->
      IF k = <<"g", TG>> THEN << <<"a", "b">> >> ELSE IF k = <<"p", TP>> THEN << <<"b">> >> ELSE <<>>]}

\* The lines decoded without having been encoded: any values in any fields.
CodecLines ==
  {CasbinRule(t, v[1], v[2], v[3], v[4], v[5], v[6]) :
     t \in PTypes, v \in [1 .. NumFields -> Values]}

InitCodec ==
  /\ filtered = FALSE
  /\ store = NoDocs
  /\ saved = NoSaved
  /\ ret = "nil"
  /\ out \in CodecModels
  /\ \/ \E t \in PTypes, r \in SeqsUpTo(Values, MaxTupleLen) :
          op = [name |-> "rule", ptype |-> t, rule |-> r,
                line |-> CasbinRule(t, "", "", "", "", "", ""), before |-> out]
     \/ \E l \in CodecLines :
          op = [name |-> "line", ptype |-> l.PType, rule |-> <<>>,
                line |-> l, before |-> out]

\* savePolicyLine applied to the rule.
EncodeStep ==
  /\ op.name = "rule"
  /\ op' = [op EXCEPT !.name = "encoded", !.line = savePolicyLine(op.ptype, op.rule)]
  /\ UNCHANGED <<filtered, store, ret, out, saved>>

\* loadPolicyLine applied to the line and the model.
DecodeStep ==
  /\ op.name \in {"line", "encoded"}
  /\ LET r == loadPolicyLine(op.line, out)
     IN  /\ ret' = IF r.panic THEN "panic" ELSE "nil"
         /\ out' = r.model
  /\ op' = [op EXCEPT !.name = IF op.name = "encoded" THEN "roundtrip" ELSE "decoded"]
  /\ UNCHANGED <<filtered, store, saved>>

NextCodec == EncodeStep \/ DecodeStep

SpecCodec == InitCodec /\ [][NextCodec]_vars

(***************************************************************************)
(* RemoveFilteredPolicy on its own, over every fieldIndex and fieldValues. *)
(***************************************************************************)

InitSelector ==
  /\ filtered = FALSE
  /\ store = BagOfSeq(<<Marshal(savePolicyLine(TP, <<"a", "b">>)),
                        Marshal(savePolicyLine(TP, <<"b">>)),
                        Marshal(savePolicyLine(TG, <<"a">>))>>)
  /\ op = NoCall
  /\ ret = "nil"
  /\ out = FreshModel
  /\ saved = NoSaved

\* The fieldValues RemoveFilteredPolicy is tried on.
SelectorFieldValues == SeqsUpTo(Values, MaxTupleLen)

NextSelector ==
  /\ Idle
  /\ \E t \in {TP, TG}, i \in -MaxIndex .. MaxIndex, fv \in SelectorFieldValues :
       RemoveFilteredPolicy(t, i, fv)

SpecSelector == InitSelector /\ [][NextSelector]_vars

(***************************************************************************)
(* Properties                                                              *)
(***************************************************************************)

IsLoad == op.name \in {"LoadPolicy", "LoadFilteredPolicy"}

\* The call returned to its caller, with or without an error.
Returned == ret \in {"nil", "err"}

\* A rule without an empty string.
NoEmpty(rule) == \A i \in 1 .. Len(rule) : rule[i] # ""

\* A rule whose values before the last are not empty.
NoInnerEmpty(rule) == \A i \in 1 .. Len(rule) - 1 : rule[i] # ""

\* A rule in which no empty value comes before a non-empty one.
EmptyOnlyAtEnd(rule) ==
  \A i \in 1 .. Len(rule) : \A j \in 1 .. Len(rule) : (i < j /\ rule[i] = "") => rule[j] = ""

\* A line with a non-empty field after an empty one.
Hole(line) ==
  \E i \in 0 .. NumFields - 1 : \E j \in 0 .. NumFields - 1 :
    i < j /\ FieldOf(line, i) = "" /\ FieldOf(line, j) # ""

\* The longest prefix of V0 .. V5 made of non-empty values.
DensePrefix(line) ==
  LET fs == <<line.V0, line.V1, line.V2, line.V3, line.V4, line.V5>>
      n == CHOOSE k \in 0 .. NumFields :
             /\ \A i \in 1 .. k : fs[i] # ""
             /\ k = NumFields \/ fs[k + 1] = ""
  IN  SubSeq(fs, 1, n)

\* The document has the type and the six fields of the line.
SameFields(doc, line) ==
  /\ doc.ptype = line.PType
  /\ doc.v0 = line.V0 /\ doc.v1 = line.V1 /\ doc.v2 = line.V2
  /\ doc.v3 = line.V3 /\ doc.v4 = line.V4 /\ doc.v5 = line.V5

\* The filter is nil or a selector without constraints.
EmptyOrAbsent(filter) == filter.nil \/ filter.selector = NoConstraint

\* C1: while filtered is true, a SavePolicy call returns the filtered-save
\* error and changes neither the collection nor the flag, and no call other
\* than a load with an empty or absent filter clears the flag; so from a
\* state with filtered true every SavePolicy before such a load is refused,
\* whatever other calls come in between.
C1_FilteredSaveRefused ==
  [][filtered =>
       /\ (op'.name = "SavePolicy") =>
            (ret' = "errFiltered" /\ store' = store /\ filtered' = filtered)
       /\ ~(op'.name \in {"LoadPolicy", "LoadFilteredPolicy"} /\ EmptyOrAbsent(op'.filter))
            => filtered']_vars

C1_Witness ==
  /\ filtered
  /\ op.name = "SavePolicy"
  /\ ret = "errFiltered"
  /\ store # NoDocs
  /\ RuleCount(op.model, ModelKeys) > 0

\* C2 (as claimed): after a load returns, filtered is false when the filter
\* was empty or absent and true when it was a non-empty filter.
C2_FlagFollowsEmptiness ==
  (IsLoad /\ Returned) => (filtered = ~EmptyOrAbsent(op.filter))

\* C2 (amended): after a load returns, filtered is false when the filter was
\* nil and true when it was any non-nil filter, an empty selector included,
\* whatever the flag was before; LoadPolicy always leaves it false.
C2_FlagFollowsNil ==
  /\ (IsLoad /\ Returned) => (filtered = ~op.filter.nil)
  /\ (op.name = "LoadPolicy" /\ Returned) => ~filtered

C2_Witness ==
  /\ op.name = "LoadFilteredPolicy"
  /\ op.filter = EmptyFilter
  /\ ret = "nil"
  /\ filtered

\* C3: the selector of RemoveFilteredPolicy always holds the type, and holds
\* a constraint on field i (0 .. 5) exactly when
\* fieldIndex <= i < fieldIndex + len(fieldValues) and
\* fieldValues[i - fieldIndex] is not empty, the value then being
\* fieldValues[i - fieldIndex]; no index is out of range.
C3_SelectorWindow ==
  (op.name = "RemoveFilteredPolicy" /\ Len(op.fieldValues) <= NumFields) =>
    LET names == <<"v0", "v1", "v2", "v3", "v4", "v5">>
        fv == op.fieldValues
        idx == op.fieldIndex
        InPlay(i) == idx <= i /\ i < idx + Len(fv) /\ fv[i - idx + 1] # ""
    IN  /\ ~op.panic
        /\ ret # "panic"
        /\ DOMAIN op.selector \subseteq {"ptype", "v0", "v1", "v2", "v3", "v4", "v5"}
        /\ "ptype" \in DOMAIN op.selector
        /\ op.selector["ptype"] = op.ptype
        /\ \A i \in 0 .. NumFields - 1 :
             /\ names[i + 1] \in DOMAIN op.selector <=> InPlay(i)
             /\ InPlay(i) => op.selector[names[i + 1]] = fv[i - idx + 1]

C3_Witness ==
  /\ op.name = "RemoveFilteredPolicy"
  /\ op.fieldIndex = 2
  /\ op.fieldValues = <<"a", "", "b">>
  /\ DOMAIN op.selector = {"ptype", "v2", "v4"}
  /\ op.selector["v4"] = "b"

\* C4 (as claimed): for a rule of length 0 .. 6 without an empty string in a
\* position before its last, decoding the line the rule was encoded to
\* appends the rule itself.  (Stated where decoding is defined: the type is
\* not empty and the model holds its key.)
C4_RoundTripNoInnerEmpty ==
  (/\ op.name = "roundtrip"
   /\ Len(op.rule) <= NumFields
   /\ NoInnerEmpty(op.rule)
   /\ op.ptype # <<>>
   /\ HasKey(op.before, Head(op.ptype), op.ptype))
  => /\ ret = "nil"
     /\ out[<<Head(op.ptype), op.ptype>>]
          = Append(op.before[<<Head(op.ptype), op.ptype>>], op.rule)

\* C4 (amended): for a rule of length 0 .. 6 without any empty string, and a
\* type that is not empty and whose key the model holds, decoding the line
\* the rule was encoded to appends the rule itself: same length, same
\* values, same order.
C4_RoundTripNoEmpty ==
  (/\ op.name = "roundtrip"
   /\ Len(op.rule) <= NumFields
   /\ NoEmpty(op.rule)
   /\ op.ptype # <<>>
   /\ HasKey(op.before, Head(op.ptype), op.ptype))
  => /\ ret = "nil"
     /\ out[<<Head(op.ptype), op.ptype>>]
          = Append(op.before[<<Head(op.ptype), op.ptype>>], op.rule)

C4_Witness ==
  /\ op.name = "roundtrip"
  /\ op.rule = <<"a", "b", "a", "b", "b", "a">>
  /\ op.ptype = TP2
  /\ ret = "nil"
  /\ out[<<"p", TP2>>] = <<op.rule>>

\* C5 (as claimed): for every rule of 0 .. 6 values, empty strings accepted,
\* the encoded line has no non-empty field after an empty one.
C5_EncodeNeverHoles ==
  (op.name = "encoded" /\ Len(op.rule) <= NumFields) => ~Hole(op.line)

\* C5 (amended): for every rule of 0 .. 6 values in which no empty string
\* comes before a non-empty one, the encoded line has no non-empty field
\* after an empty one.
C5_EncodeDenseNoHoles ==
  (op.name = "encoded" /\ Len(op.rule) <= NumFields /\ EmptyOnlyAtEnd(op.rule))
  => ~Hole(op.line)

C5_Witness ==
  /\ op.name = "encoded"
  /\ op.rule = <<"a", "b", "", "">>
  /\ ~Hole(op.line)
  /\ op.line.V1 = "b"

\* The number of rules of the model that are encoded to the document.
RulesEncodedTo(model, doc) ==
  Cardinality({ki \in ModelKeys \X (1 .. MaxStore + 1) :
                 /\ ki[2] <= Len(model[ki[1]])
                 /\ SameFields(doc, savePolicyLine(ki[1][2], model[ki[1]][ki[2]]))})

\* After SavePolicy succeeded: one document per rule, and nothing else.
SavedExactly ==
  (op.name = "SavePolicy" /\ ret = "nil") =>
    /\ ~filtered
    /\ RuleCount(op.model, ModelKeys) >= 1
    /\ Size(store) = RuleCount(op.model, ModelKeys)
    /\ \A d \in DOMAIN store : store[d] = RulesEncodedTo(op.model, d)

\* A LoadPolicy into a cleared model during which the transport did not
\* fail, the collection being as a successful SavePolicy left it.
LoadAfterSave ==
  /\ op.name = "LoadPolicy"
  /\ saved.valid
  /\ op.model = FreshModel
  /\ op.fault = "none"

\* The load gave, under each key, the rules the saved model has under it.
LoadedWhatWasSaved ==
  /\ Returned
  /\ DOMAIN out = DOMAIN saved.model
  /\ \A k \in DOMAIN out : BagOfSeq(out[k]) = BagOfSeq(saved.model[k])

\* C6 (as claimed): after SavePolicy succeeded the collection holds one
\* document per rule and nothing else, and a following LoadPolicy into a
\* cleared model gives under each key the rules the saved model had.
C6_SaveThenLoad ==
  /\ SavedExactly
  /\ LoadAfterSave => LoadedWhatWasSaved

\* C6 (amended): after SavePolicy succeeded the collection holds one document
\* per rule and nothing else; when no rule of the saved model holds an empty
\* string, a following LoadPolicy into a cleared model gives under each key
\* the rules the saved model had.
C6_SaveThenLoadNoEmpty ==
  /\ SavedExactly
  /\ (LoadAfterSave
      /\ \A k \in ModelKeys : \A i \in 1 .. Len(saved.model[k]) : NoEmpty(saved.model[k][i]))
     => LoadedWhatWasSaved

C6_Witness ==
  /\ LoadAfterSave
  /\ saved.model[<<"p", TP>>] = << <<"a", "b">> >>
  /\ saved.model[<<"g", TG>>] = << <<"a">> >>
  /\ out = saved.model

\* C7: when Find or the cursor fails during a load, the call returns an
\* error to its caller (it neither succeeds nor ends the process), and the
\* model holds the rules decoded before the failure.
C7_TransportErrorReturned ==
  (IsLoad /\ op.fault \in {"find", "iter"}) =>
    /\ ret = "err"
    /\ out = LoadLines(op.delivered, op.model).model

\* The rules of the documents that cur.Decode accepts and that have the
\* given type, in order.
RECURSIVE RulesOfType(_, _)
RulesOfType(ptype, docs) ==
  IF docs = <<>> THEN <<>>
  ELSE (IF Decodable(Head(docs)) /\ Head(docs).ptype = ptype
        THEN <<DensePrefix(Unmarshal(Head(docs)))>> ELSE <<>>)
       \o RulesOfType(ptype, Tail(docs))

\* The number of documents cur.Decode accepts.
RECURSIVE DecodableCount(_)
DecodableCount(docs) ==
  IF docs = <<>> THEN 0
  ELSE (IF Decodable(Head(docs)) THEN 1 ELSE 0) + DecodableCount(Tail(docs))

\* C8: a load whose documents are N decodable ones and any number that fail
\* to decode appends the N rules of the decodable ones and nothing else,
\* goes past each malformed one, and returns (no abort).
C8_MalformedSkipped ==
  (IsLoad /\ op.fault = "none") =>
    /\ Returned
    /\ RuleCount(out, DOMAIN out)
         = RuleCount(op.model, DOMAIN op.model) + DecodableCount(op.delivered)
    /\ \A k \in DOMAIN out : out[k] = op.model[k] \o RulesOfType(k[2], op.delivered)

\* C9: RemovePolicy that returns without error deletes exactly one document
\* whose type and six fields are those of the encoded rule when there is
\* one, nothing otherwise, and leaves the other documents; AddPolicy adds
\* one document whatever the collection holds, so that of k copies added
\* k - 1 remain after one removal.
C9_RemoveExactlyOne ==
  [][/\ (op'.name = "RemovePolicy" /\ ret' = "nil") =>
          LET line == savePolicyLine(op'.ptype, op'.rule)
              hit == {d \in DOMAIN store : SameFields(d, line)}
          IN  IF hit = {} THEN store' = store
              ELSE \E d \in hit :
                     /\ Count(store', d) = Count(store, d) - 1
                     /\ \A e \in (DOMAIN store \cup DOMAIN store') \ {d} :
                          Count(store', e) = Count(store, e)
     /\ (op'.name = "AddPolicy" /\ ret' = "nil") =>
          \E d \in DOMAIN store' :
            /\ SameFields(d, savePolicyLine(op'.ptype, op'.rule))
            /\ Count(store', d) = Count(store, d) + 1
            /\ \A e \in (DOMAIN store \cup DOMAIN store') \ {d} :
                 Count(store', e) = Count(store, e)]_vars

C9_Witness ==
  /\ op.name = "RemovePolicy"
  /\ ret = "nil"
  /\ op.rule = <<"a", "b">>
  /\ Size(store) = MaxStore - 1
  /\ \A d \in DOMAIN store : SameFields(d, savePolicyLine(op.ptype, op.rule))

\* C10: for a line with a non-empty type whose key the model holds, decode
\* appends exactly one rule under (first character of the type, type): the
\* longest prefix of V0 .. V5 made of non-empty values (empty when V0 is
\* empty, later non-empty fields dropped); every other list is unchanged.
C10_DecodeDensePrefix ==
  (/\ op.name \in {"decoded", "roundtrip"}
   /\ op.line.PType # <<>>
   /\ HasKey(op.before, Head(op.line.PType), op.line.PType))
  => LET key == <<Head(op.line.PType), op.line.PType>>
     IN  /\ ret = "nil"
         /\ DOMAIN out = DOMAIN op.before
         /\ out[key] = Append(op.before[key], DensePrefix(op.line))
         /\ \A k \in DOMAIN out \ {key} : out[k] = op.before[k]

C10_Witness ==
  /\ op.name = "decoded"
  /\ op.line = CasbinRule(TG, "a", "b", "", "a", "", "b")
  /\ op.before[<<"g", TG>>] = << <<"a", "b">> >>
  /\ out[<<"g", TG>>] = << <<"a", "b">>, <<"a", "b">> >>
  /\ out[<<"p", TP>>] = << <<"b">> >>

====
